---- MODULE Spec2Model ----
(***************************************************************************)
(* zerokv: the Core / Batch / Iterator contract and its two adapters,      *)
(* badgerdb (src/badgerdb/badgerdb.go) and pebbledb (src/unnamed/part_004).*)
(*                                                                         *)
(* The adapters are thin: every method forwards to one engine primitive.   *)
(* The engine primitives are modelled by what the engines do on that call  *)
(* (badger v4, pebble v1), next to the adapter line that makes the call.   *)
(* Keys are byte strings (sequences over 0..255), values are opaque.       *)
(***************************************************************************)
EXTENDS Integers, Sequences, FiniteSets, TLC

VARIABLES
    adapter,    \* which constructor built the Core: "badger" or "pebble"
    closed,     \* Close() has been called on the Core
    store,      \* engine contents: key -> value, NoVal when absent
    batch,      \* the Batch object the caller holds
    last,       \* the last call and what it returned to the caller
    hist,       \* history: per key, the last direct writes (a value or Del)
    base,       \* history: the store without any operation of the held batch
    iter,       \* the Iterator object the caller holds
    seen,       \* history: what Key() gives after each Next() that returned true
    pos,        \* history: the iterator's protocol state, from what Next() returned
    res,        \* engine resources that are open: cursors and read transactions
    held,       \* the byte slice the caller holds from its last Get
    kept,       \* the byte slice the caller holds from its last Key() or Value()
    conc,       \* the calls several threads have in progress on the Core
    rwc         \* one RunWithContext call: its context, worker, channel, result

vars == <<adapter, closed, store, batch, last, hist, base, iter, seen, pos, res, held,
          kept, conc, rwc>>

----------------------------------------------------------------------------
\* Bounds and universes

\* Most operations one batch is given before it is committed.
MaxBatchOps == 3

Adapters == {"badger", "pebble"}
Values == {"v1", "v2"}
NoVal == "none"
Del == "del"
Ctxs == {"live", "cancelled"}

\* Every key the engine may hold; <<>> is the empty key, 255 is 0xFF.
AllKeys == {<<>>, <<1>>, <<1, 0>>, <<1, 255>>, <<2>>, <<255>>, <<255, 1>>}

\* Prefixes Scan is given.
Prefixes == {<<>>, <<1>>, <<1, 255>>, <<2>>, <<255>>}

\* No key: a nil []byte result, a cursor that is not on an entry.
NoKey == <<-1>>

\* Keys the operations are given.  Each specification gives one side (the
\* batch, or the direct writes) every key of Keys and the other side the
\* keys of BatchKeys only.
Keys == {<<1>>, <<2>>}
BatchKeys == {<<1>>}

\* Most calls one thread makes.
MaxCalls == 2

\* Most Scan calls made while iterators or transactions are open, and most
\* Value() faults one iterator meets.
MaxScans == 2
MaxFaults == 2

\* badger.Options as NewBadgerDB passes them fix how many entries one
\* badger transaction takes (maxBatchCount); scaled down to 2 entries.
TxnCap == 2

\* Error values the adapters hand back ("panic": the call did not return).
NotFoundClass == {"ErrKeyNotFound", "ErrNotFound"}

----------------------------------------------------------------------------
\* Results

Ret(op, k, ctx, err, out) ==
    [op |-> op, k |-> k, ctx |-> ctx, err |-> err, out |-> out]

\* context.Context.Err()
CtxErr(ctx) == IF ctx = "cancelled" THEN "context.Canceled" ELSE "nil"

----------------------------------------------------------------------------
\* Core.Put

\* badger: db.Update(txn.Set(key, value)); ctx is not looked at.
BadgerPutErr(k) ==
    IF closed THEN "ErrDBClosed"
    ELSE IF k = <<>> THEN "ErrEmptyKey"
    ELSE "nil"

\* pebble: db.Set(key, data, Sync); ctx is not looked at.
PebblePutErr(k) == IF closed THEN "panic" ELSE "nil"

PutErr(k) == IF adapter = "badger" THEN BadgerPutErr(k) ELSE PebblePutErr(k)

\* Fault variants of Set: the write is dropped; an existing key is kept.
EngineSetDropped(s, k, v) == s
EngineSetInsertOnly(s, k, v) == IF s[k] = NoVal THEN [s EXCEPT ![k] = v] ELSE s

\* The engine's Set: the key now maps to the value.
EngineSet(s, k, v) == [s EXCEPT ![k] = v]

\* Fault variant of Delete: the key stays.
EngineDeleteDropped(s, k) == s

\* The engine's Delete: the key is absent afterwards, present before or not.
EngineDelete(s, k) == [s EXCEPT ![k] = NoVal]

\* hist keeps the last two direct writes of a key.
Push(h, x) == IF Len(h) < 2 THEN Append(h, x) ELSE <<h[2], x>>

Put(ctx, k, v) ==
    LET err == PutErr(k) IN
    /\ last' = Ret("Put", k, ctx, err, NoVal)
    /\ IF err = "nil"
       THEN /\ store' = EngineSet(store, k, v)
            /\ hist' = [hist EXCEPT ![k] = Push(@, v)]
            /\ base' = EngineSet(base, k, v)
       ELSE UNCHANGED <<store, hist, base>>
    /\ UNCHANGED <<adapter, closed, batch, iter, seen, pos, res, held,
                 kept, conc, rwc>>

----------------------------------------------------------------------------
\* Core.Get

\* badger: ctx.Err() first, then db.View(txn.Get(key)), value copied.
BadgerGet(ctx, k) ==
    IF CtxErr(ctx) # "nil" THEN [err |-> CtxErr(ctx), out |-> NoVal]
    ELSE IF closed THEN [err |-> "ErrDBClosed", out |-> NoVal]
    ELSE IF k = <<>> THEN [err |-> "ErrEmptyKey", out |-> NoVal]
    ELSE IF store[k] = NoVal THEN [err |-> "ErrKeyNotFound", out |-> NoVal]
    ELSE [err |-> "nil", out |-> store[k]]

\* pebble: db.Get(key); ctx is not looked at.
PebbleGet(ctx, k) ==
    IF closed THEN [err |-> "panic", out |-> NoVal]
    ELSE IF store[k] = NoVal THEN [err |-> "ErrNotFound", out |-> NoVal]
    ELSE [err |-> "nil", out |-> store[k]]

\* Fault variant of Get: reads a snapshot taken before any write.
GetResStale(ctx, k) ==
    [err |-> IF adapter = "badger" THEN "ErrKeyNotFound" ELSE "ErrNotFound", out |-> NoVal]

GetRes(ctx, k) == IF adapter = "badger" THEN BadgerGet(ctx, k) ELSE PebbleGet(ctx, k)

\* The slice Get hands to the caller: val is what it reads now, was is what
\* it read when Get returned, owned tells whose memory it is.
NoHeld == [val |-> NoVal, was |-> NoVal, owned |-> TRUE]

\* badger: data = append([]byte{}, val...), a new slice of the caller's.
BadgerGetBuf(r) == [val |-> r.out, was |-> r.out, owned |-> TRUE]

\* pebble: val as db.Get gave it, handed back after closer.Close(): the
\* slice points into memory of the engine that the closer has given up.
PebbleGetBuf(r) == [val |-> r.out, was |-> r.out, owned |-> FALSE]

GetBuf(r) ==
    IF r.err # "nil" THEN NoHeld
    ELSE IF adapter = "badger" THEN BadgerGetBuf(r) ELSE PebbleGetBuf(r)

Get(ctx, k) ==
    LET r == GetRes(ctx, k) IN
    /\ last' = Ret("Get", k, ctx, r.err, r.out)
    /\ held' = GetBuf(r)
    /\ UNCHANGED <<adapter, closed, store, batch, hist, base, iter, seen, pos, res,
                 kept, conc, rwc>>

\* What is left in memory the engine has freed or reused.
Junk == "junk"

\* pebble reuses the memory of a value it no longer holds a reference to
\* (a cache block evicted, a memtable flushed): a slice that points into it
\* reads whatever is there now.
Recycle ==
    /\ ~held.owned
    /\ \E x \in Values \cup {Junk} : held' = [held EXCEPT !.val = x]
    /\ UNCHANGED <<adapter, closed, store, batch, last, hist, base, iter, seen, pos, res,
                 kept, conc, rwc>>

----------------------------------------------------------------------------
\* Core.Delete

\* badger: ctx.Err() first, then db.Update(txn.Delete(key)).
BadgerDeleteErr(ctx, k) ==
    IF CtxErr(ctx) # "nil" THEN CtxErr(ctx)
    ELSE IF closed THEN "ErrDBClosed"
    ELSE IF k = <<>> THEN "ErrEmptyKey"
    ELSE "nil"

\* pebble: db.Delete(key, Sync); ctx is not looked at.
PebbleDeleteErr(ctx, k) == IF closed THEN "panic" ELSE "nil"

DeleteErr(ctx, k) ==
    IF adapter = "badger" THEN BadgerDeleteErr(ctx, k) ELSE PebbleDeleteErr(ctx, k)

Delete(ctx, k) ==
    LET err == DeleteErr(ctx, k) IN
    /\ last' = Ret("Delete", k, ctx, err, NoVal)
    /\ IF err = "nil"
       THEN /\ store' = EngineDelete(store, k)
            /\ hist' = [hist EXCEPT ![k] = Push(@, Del)]
            /\ base' = EngineDelete(base, k)
       ELSE UNCHANGED <<store, hist, base>>
    /\ UNCHANGED <<adapter, closed, batch, iter, seen, pos, res, held,
                 kept, conc, rwc>>

----------------------------------------------------------------------------
\* Core.Close

\* fail: the engine meets a failure while it closes.
\* badger: db.Close() closes under a sync.Once: the first call closes the
\* DB, every later call does nothing and returns nil.
BadgerCloseErr(fail) ==
    IF closed THEN "nil" ELSE IF fail THEN "ErrEngineClose" ELSE "nil"

\* pebble: db.Close() on a DB that is closed panics with ErrClosed.
PebbleCloseErr(fail) ==
    IF closed THEN "panic" ELSE IF fail THEN "ErrEngineClose" ELSE "nil"

CloseErr(fail) ==
    IF adapter = "badger" THEN BadgerCloseErr(fail) ELSE PebbleCloseErr(fail)

\* Fault variant: the engine's failure is not collected.
CloseErrsDropped(e) == <<>>

\* errs = append(errs, err) when db.Close() gave an error.
CloseErrs(e) == IF e = "nil" THEN <<>> ELSE <<e>>

\* errors.Join(errs...): one error that wraps every error of errs.
RECURSIVE Listed(_)
Listed(errs) ==
    IF Len(errs) = 1 THEN errs[1] ELSE errs[1] \o "," \o Listed(Tail(errs))

Join(errs) == "join(" \o Listed(errs) \o ")"

\* nil when errs is empty, else the join.
CloseRet(errs) == IF Len(errs) = 0 THEN "nil" ELSE Join(errs)

\* The result's out field keeps what the engine's Close gave.  The engine is
\* closed once its Close has returned, with or without a failure.
Close(fail) ==
    LET e == CloseErr(fail) IN
    /\ last' = Ret("Close", <<>>, "live",
                   IF e = "panic" THEN e ELSE CloseRet(CloseErrs(e)), e)
    /\ closed' = (closed \/ e # "panic")
    /\ UNCHANGED <<adapter, store, batch, hist, base, iter, seen, pos, res, held,
                 kept, conc, rwc>>

----------------------------------------------------------------------------
\* Core.Batch and the Batch methods

PutOp(k, v) == [t |-> "put", k |-> k, v |-> v]
DelOp(k) == [t |-> "del", k |-> k, v |-> NoVal]

\* One queued operation applied to the engine contents.
ApplyOp(s, o) == IF o.t = "put" THEN EngineSet(s, o.k, o.v) ELSE EngineDelete(s, o.k)

\* The queued operations applied in queue order.
RECURSIVE ApplyOps(_, _)
ApplyOps(s, ops) ==
    IF ops = <<>> THEN s ELSE ApplyOps(ApplyOp(s, Head(ops)), Tail(ops))

OpKeys(ops) == {ops[i].k : i \in 1..Len(ops)}

\* Core.Batch(): db.NewWriteBatch() / db.NewBatch(), a new empty batch;
\* neither engine looks whether the DB is closed.
NewBatch ==
    /\ batch' = [st |-> "open", pending |-> <<>>, queued |-> <<>>]
    /\ base' = store
    /\ last' = Ret("Batch", <<>>, "live", "nil", NoVal)
    /\ UNCHANGED <<adapter, closed, store, hist, iter, seen, pos, res, held,
                 kept, conc, rwc>>

\* badger WriteBatch.Set / Delete: the entry goes into the batch's current
\* transaction; a full transaction (ErrTxnTooBig) is committed on the spot
\* and the entry goes into a fresh one.  After Flush the transaction is
\* discarded and the call fails.
BadgerBatchAdd(o) ==
    IF batch.st = "done" THEN
        [err |-> "ErrDiscardedTxn", flush |-> <<>>, pending |-> batch.pending]
    ELSE IF o.k = <<>> THEN
        [err |-> "ErrEmptyKey", flush |-> <<>>, pending |-> batch.pending]
    ELSE IF Len(batch.pending) >= TxnCap /\ closed THEN
        \* the closed DB refuses the full transaction; the entry is taken
        [err |-> "nil", flush |-> <<>>, pending |-> <<o>>]
    ELSE IF Len(batch.pending) >= TxnCap THEN
        [err |-> "nil", flush |-> batch.pending, pending |-> <<o>>]
    ELSE
        [err |-> "nil", flush |-> <<>>, pending |-> Append(batch.pending, o)]

\* Fault variant: a committed pebble batch takes the record silently.
PebbleBatchAddSilent(o) ==
    [err |-> "nil", flush |-> <<>>, pending |-> Append(batch.pending, o)]

\* pebble Batch.Set / Delete: the record is appended to the batch's buffer;
\* a batch that has been committed panics.
PebbleBatchAdd(o) ==
    IF batch.st = "done" THEN
        [err |-> "panic", flush |-> <<>>, pending |-> batch.pending]
    ELSE
        [err |-> "nil", flush |-> <<>>, pending |-> Append(batch.pending, o)]

BatchAdd(o) == IF adapter = "badger" THEN BadgerBatchAdd(o) ELSE PebbleBatchAdd(o)

\* What a batch call does to the state: r.flush reaches the engine.
BatchStep(op, o, ctx, r, st) ==
    /\ last' = Ret(op, o.k, ctx, r.err, NoVal)
    /\ store' = ApplyOps(store, r.flush)
    /\ hist' = [k \in AllKeys |-> IF k \in OpKeys(r.flush) THEN <<>> ELSE hist[k]]
    /\ batch' = [st |-> st, pending |-> r.pending,
                 queued |-> IF r.err = "nil" /\ op # "Commit"
                            THEN Append(batch.queued, o) ELSE batch.queued]
    /\ UNCHANGED <<adapter, closed, base, iter, seen, pos, res, held,
                 kept, conc, rwc>>

BatchPut(k, v) ==
    /\ batch.st # "none"
    /\ batch.st = "open" => Len(batch.queued) < MaxBatchOps
    /\ BatchStep("BatchPut", PutOp(k, v), "live", BatchAdd(PutOp(k, v)), batch.st)

BatchDelete(k) ==
    /\ batch.st # "none"
    /\ batch.st = "open" => Len(batch.queued) < MaxBatchOps
    /\ BatchStep("BatchDelete", DelOp(k), "live", BatchAdd(DelOp(k)), batch.st)

\* badger: ctx.Err() first, then WriteBatch.Flush(): the current transaction
\* is committed and the batch is finished; a finished batch fails.  A closed
\* DB refuses the writes of a transaction that has any.
BadgerCommit(ctx) ==
    IF CtxErr(ctx) # "nil" THEN
        [err |-> CtxErr(ctx), flush |-> <<>>, pending |-> batch.pending]
    ELSE IF batch.st = "done" THEN
        [err |-> "ErrCommitAfterFinish", flush |-> <<>>, pending |-> batch.pending]
    ELSE IF closed /\ batch.pending # <<>> THEN
        [err |-> "ErrBlockedWrites", flush |-> <<>>, pending |-> batch.pending]
    ELSE
        [err |-> "nil", flush |-> batch.pending, pending |-> <<>>]

\* Fault variant: a committed pebble batch answers with an error value.
PebbleCommitErrValue(ctx) ==
    IF batch.st = "done" THEN
        [err |-> "ErrBatchCommitted", flush |-> <<>>, pending |-> batch.pending]
    ELSE
        [err |-> "nil", flush |-> batch.pending, pending |-> <<>>]

\* pebble: Batch.Commit(Sync), ctx is not looked at: the whole buffer is
\* applied at once; a batch that has been committed panics, and so does
\* the commit to a closed DB.
PebbleCommit(ctx) ==
    IF batch.st = "done" \/ closed THEN
        [err |-> "panic", flush |-> <<>>, pending |-> batch.pending]
    ELSE
        [err |-> "nil", flush |-> batch.pending, pending |-> <<>>]

CommitRes(ctx) == IF adapter = "badger" THEN BadgerCommit(ctx) ELSE PebbleCommit(ctx)

Commit(ctx) ==
    /\ batch.st # "none"
    /\ LET r == CommitRes(ctx) IN
       BatchStep("Commit", DelOp(<<>>), ctx, r,
                 IF r.err = "nil" THEN "done" ELSE batch.st)

----------------------------------------------------------------------------
\* Byte strings

Min(a, b) == IF a < b THEN a ELSE b

\* bytes.Compare(a, b) < 0: byte-lexicographic order, a proper prefix first.
Less(a, b) ==
    \E i \in 1..(Min(Len(a), Len(b)) + 1) :
        /\ \A j \in 1..(i - 1) : a[j] = b[j]
        /\ IF i > Len(a) THEN i <= Len(b)
           ELSE i <= Len(b) /\ a[i] < b[i]

LessEq(a, b) == a = b \/ Less(a, b)

\* bytes.HasPrefix(k, p)
HasPrefix(k, p) == Len(p) <= Len(k) /\ SubSeq(k, 1, Len(p)) = p

\* The keys a snapshot holds.
Present(snap) == {k \in AllKeys : snap[k] # NoVal}

\* The least of a set of keys, NoKey when there is none.
Least(S) == IF S = {} THEN NoKey ELSE CHOOSE k \in S : \A x \in S : LessEq(k, x)

\* Fault variant of the cursor's step: it stays on the key it is on.
AfterStuck(snap, c) == c

\* The engine cursor's moves over a snapshot: to the first key >= lo, and
\* from key c to the next key.
SeekGE(snap, lo) == Least({k \in Present(snap) : LessEq(lo, k)})
After(snap, c) == Least({k \in Present(snap) : Less(c, k)})

----------------------------------------------------------------------------
\* Core.Scan and Iterator.Next, Iterator.Key

NoIter == [st |-> "none", prefix |-> <<>>, upper |-> <<>>, snap |-> [k \in AllKeys |-> NoVal],
           cur |-> NoKey, started |-> FALSE, valid |-> FALSE, errs |-> <<>>]

\* pebble Scan: upbound is a copy of prefix with its last byte incremented
\* (a Go byte: 0xFF + 1 = 0x00).
UpBound(prefix) == [prefix EXCEPT ![Len(prefix)] = (@ + 1) % 256]

\* Engine resources: how many cursors and read transactions are open.
NoRes == [cursors |-> 0, txns |-> 0]
Cursor == [cursors |-> 1, txns |-> 0]
TxnAndCursor == [cursors |-> 1, txns |-> 1]

\* badger: a read transaction and an iterator with Prefix: prefix on it;
\* txn.NewIterator panics with ErrDBClosed on a closed DB.
BadgerScan(prefix) ==
    IF closed THEN [err |-> "panic", opens |-> NoRes, it |-> iter] ELSE
    [err |-> "nil", opens |-> TxnAndCursor,
     it |-> [NoIter EXCEPT !.st = "live", !.prefix = prefix, !.snap = store]]

\* pebble: upbound[len(upbound)-1]++ indexes an empty slice at -1 and panics;
\* else an iterator with bounds [prefix, upbound); db.NewIter panics with
\* ErrClosed on a closed DB.
PebbleScan(prefix) ==
    IF Len(prefix) = 0 \/ closed THEN [err |-> "panic", opens |-> NoRes, it |-> iter]
    ELSE [err |-> "nil", opens |-> Cursor,
          it |-> [NoIter EXCEPT !.st = "live", !.prefix = prefix,
                                !.upper = UpBound(prefix), !.snap = store]]

ScanRes(prefix) == IF adapter = "badger" THEN BadgerScan(prefix) ELSE PebbleScan(prefix)

Scan(prefix) ==
    LET r == ScanRes(prefix) IN
    /\ res.cursors < MaxScans /\ res.txns < MaxScans
    /\ iter' = r.it
    /\ seen' = IF r.err = "nil" THEN <<>> ELSE seen
    /\ pos' = IF r.err = "nil" THEN "NotStarted" ELSE pos
    /\ res' = [cursors |-> res.cursors + r.opens.cursors,
               txns |-> res.txns + r.opens.txns]
    /\ last' = Ret("Scan", prefix, "live", r.err, NoVal)
    /\ UNCHANGED <<adapter, closed, store, batch, hist, base, held,
                 kept, conc, rwc>>

\* badger Iterator.Valid(): on an item, and the item's key has the prefix.
BadgerValid(it, c) == c # NoKey /\ HasPrefix(c, it.prefix)

\* badger: Rewind() seeks to the prefix, Next() moves on from the item; an
\* item whose key lacks the prefix is not taken, which leaves the iterator
\* without an item.  Next() with no item dereferences nil.
BadgerNext(it) ==
    IF ~it.started THEN
        LET c == SeekGE(it.snap, it.prefix)
            c2 == IF BadgerValid(it, c) THEN c ELSE NoKey IN
        [err |-> "nil",
         it |-> [it EXCEPT !.cur = c2, !.started = TRUE, !.valid = BadgerValid(it, c2)]]
    ELSE IF it.cur = NoKey THEN [err |-> "panic", it |-> it]
    ELSE
        LET c == After(it.snap, it.cur)
            c2 == IF BadgerValid(it, c) THEN c ELSE NoKey IN
        [err |-> "nil", it |-> [it EXCEPT !.cur = c2, !.valid = BadgerValid(it, c2)]]

\* pebble Iterator.First() / Next(): true when the cursor is on a key below
\* the upper bound; an exhausted iterator stays exhausted.
PebbleInBounds(it, c) == IF c # NoKey /\ Less(c, it.upper) THEN c ELSE NoKey

\* Fault variant of Next(): the cursor reads the store as it is now, not
\* as it was when the iterator was made.
PebbleNextLive(it) ==
    IF ~it.started THEN
        LET c == PebbleInBounds(it, SeekGE(store, it.prefix)) IN
        [err |-> "nil",
         it |-> [it EXCEPT !.cur = c, !.started = TRUE, !.valid = (c # NoKey)]]
    ELSE
        LET c == IF it.cur = NoKey THEN NoKey
                 ELSE PebbleInBounds(it, After(store, it.cur)) IN
        [err |-> "nil", it |-> [it EXCEPT !.cur = c, !.valid = (c # NoKey)]]

PebbleNext(it) ==
    IF ~it.started THEN
        LET c == PebbleInBounds(it, SeekGE(it.snap, it.prefix)) IN
        [err |-> "nil",
         it |-> [it EXCEPT !.cur = c, !.started = TRUE, !.valid = (c # NoKey)]]
    ELSE
        LET c == IF it.cur = NoKey THEN NoKey
                 ELSE PebbleInBounds(it, After(it.snap, it.cur)) IN
        [err |-> "nil", it |-> [it EXCEPT !.cur = c, !.valid = (c # NoKey)]]

NextRes(it) == IF adapter = "badger" THEN BadgerNext(it) ELSE PebbleNext(it)

\* The slice Key() or Value() hands to the caller: val is what it reads
\* now, was is what it read when the call returned, owned tells whose memory
\* it is, stale tells that the iterator has moved or been closed since.
NoKept == [kind |-> "none", val |-> NoVal, was |-> NoVal, owned |-> TRUE, stale |-> FALSE]

\* badger: Item().KeyCopy(nil), Item().ValueCopy(nil): new slices.
BadgerSlice(kind, x) ==
    [kind |-> kind, val |-> x, was |-> x, owned |-> TRUE, stale |-> FALSE]

\* pebble: iteractor.Key(), iteractor.ValueAndErr(): the iterator's own
\* buffers, good until the iterator is moved or closed.
PebbleSlice(kind, x) ==
    [kind |-> kind, val |-> x, was |-> x, owned |-> FALSE, stale |-> FALSE]

\* nil is no slice at all.
Slice(kind, x) ==
    IF x = (IF kind = "key" THEN NoKey ELSE NoVal) THEN NoKept
    ELSE IF adapter = "badger" THEN BadgerSlice(kind, x) ELSE PebbleSlice(kind, x)

\* The engine's Next() and Close() give up the buffers of the entry the
\* iterator was on.
Moved(sl) == IF sl.owned THEN sl ELSE [sl EXCEPT !.stale = TRUE]

\* What is left in a key buffer the engine has reused.
JunkKey == <<-2>>

\* pebble reuses the buffers of an iterator that has moved on: a slice that
\* points into them reads what is there now, another entry's bytes or junk.
ReuseBuffer ==
    /\ kept.stale
    /\ \E x \in (IF kept.kind = "key" THEN Present(iter.snap) \cup {JunkKey}
                              ELSE Values \cup {Junk}) :
          kept' = [kept EXCEPT !.val = x]
    /\ UNCHANGED <<adapter, closed, store, batch, last, hist, base, iter, seen, pos,
                   res, held, conc, rwc>>

\* Fault variant of Key(): without the valid guard the engine's key buffer
\* is read, which still holds the key last visited.
KeyResStale(it) ==
    IF it.valid THEN it.cur
    ELSE IF seen = <<>> THEN NoKey ELSE seen[Len(seen)]

\* Key() and Value() go to the engine cursor (iteractor.Item(),
\* iteractor.Key(), iteractor.ValueAndErr()) when valid is set.
TouchesCursor(it) == it.valid

\* Iterator.Key(): nil unless valid, else the key under the cursor.
KeyRes(it) == IF ~it.valid THEN NoKey ELSE it.cur

\* pos follows what Next() returned: true, false, or nothing (a panic).
IterNext ==
    /\ iter.st = "live"
    /\ LET r == NextRes(iter) IN
       /\ iter' = r.it
       /\ last' = Ret("Next", <<>>, "live", r.err,
                      IF r.err = "nil" /\ r.it.valid THEN "true" ELSE "false")
       /\ seen' = IF r.err = "nil" /\ r.it.valid THEN Append(seen, KeyRes(r.it)) ELSE seen
       /\ pos' = IF r.err # "nil" THEN pos
                 ELSE IF r.it.valid THEN "Positioned" ELSE "Exhausted"
    /\ kept' = Moved(kept)
    /\ UNCHANGED <<adapter, closed, store, batch, hist, base, res, held,
                 conc, rwc>>

\* Key() on a live or a released iterator: the valid flag alone decides
\* whether the engine cursor is read.
IterKey ==
    /\ iter.st # "none"
    /\ last' = Ret("Key", KeyRes(iter), "live", "nil", NoVal)
    /\ kept' = Slice("key", KeyRes(iter))
    /\ UNCHANGED <<adapter, closed, store, batch, hist, base, iter, seen, pos, res, held,
                 conc, rwc>>

----------------------------------------------------------------------------
\* Iterator.Value, Iterator.Error, Iterator.Release

\* A zero-length, non-nil []byte.
Empty == "empty"

\* The error of the n-th failing read of an iterator; one name for each,
\* so that they can be told apart.
RECURSIVE Fault(_)
Fault(n) == IF n <= 1 THEN "ErrValue" ELSE Fault(n - 1) \o "'"

\* badger Value(): nil unless valid; Item().ValueCopy(nil); a fault is
\* appended to it.err and []byte{} is returned.
BadgerValue(it, fault) ==
    IF ~it.valid THEN [out |-> NoVal, it |-> it]
    ELSE IF fault THEN
        [out |-> Empty, it |-> [it EXCEPT !.errs = Append(@, Fault(Len(@) + 1))]]
    ELSE [out |-> it.snap[it.cur], it |-> it]

\* pebble Value(): nil unless valid; iteractor.ValueAndErr(); a fault is
\* appended to it.err and nil is returned.
PebbleValue(it, fault) ==
    IF ~it.valid THEN [out |-> NoVal, it |-> it]
    ELSE IF fault THEN
        [out |-> NoVal, it |-> [it EXCEPT !.errs = Append(@, Fault(Len(@) + 1))]]
    ELSE [out |-> it.snap[it.cur], it |-> it]

ValueRes(it, fault) ==
    IF adapter = "badger" THEN BadgerValue(it, fault) ELSE PebbleValue(it, fault)

\* fault: the engine fails to materialize the value on this call.  Value()
\* is called on a live or a released iterator.
IterValue(fault) ==
    /\ iter.st # "none"
    /\ fault => Len(iter.errs) < MaxFaults
    /\ LET r == ValueRes(iter, fault) IN
       /\ iter' = r.it
       /\ last' = Ret("Value", KeyRes(iter), "live", "nil", r.out)
       /\ kept' = Slice("value", r.out)
    /\ UNCHANGED <<adapter, closed, store, batch, hist, base, seen, pos, res, held,
                 conc, rwc>>

\* Fault variant of Error(): the first fault recorded is returned.
ErrorResFirst(it) ==
    IF it.errs = <<>> THEN [err |-> "panic", out |-> "nil"]
    ELSE [err |-> "nil", out |-> it.errs[1]]

\* Error(): it.err[len(it.err)-1]; with an empty it.err the index is -1.
ErrorRes(it) ==
    IF it.errs = <<>> THEN [err |-> "panic", out |-> "nil"]
    ELSE [err |-> "nil", out |-> it.errs[Len(it.errs)]]

IterError ==
    /\ iter.st = "live"
    /\ LET r == ErrorRes(iter) IN
       last' = Ret("Error", <<>>, "live", r.err, r.out)
    /\ UNCHANGED <<adapter, closed, store, batch, hist, base, iter, seen, pos, res, held,
                 kept, conc, rwc>>

\* Fault variant of Release: closing a cursor that is on no entry panics.
BadgerReleaseStrict(it) ==
    [err |-> IF it.cur = NoKey THEN "panic" ELSE "nil", frees |-> Cursor,
     it |-> [it EXCEPT !.st = "released"]]

\* badger Release(): iteractor.Close() closes the cursor.  The transaction
\* Scan opened is not discarded: the adapter kept no reference to it.
BadgerRelease(it) ==
    [err |-> "nil", frees |-> Cursor, it |-> [it EXCEPT !.st = "released"]]

\* pebble Release(): it.valid = false, iteractor.Close() closes the cursor.
PebbleRelease(it) ==
    [err |-> "nil", frees |-> Cursor,
     it |-> [it EXCEPT !.st = "released", !.valid = FALSE]]

ReleaseRes(it) == IF adapter = "badger" THEN BadgerRelease(it) ELSE PebbleRelease(it)

Release ==
    /\ iter.st = "live"
    /\ LET r == ReleaseRes(iter) IN
       /\ iter' = r.it
       /\ res' = [cursors |-> res.cursors - r.frees.cursors,
                  txns |-> res.txns - r.frees.txns]
       /\ last' = Ret("Release", <<>>, "live", r.err, NoVal)
    /\ kept' = Moved(kept)
    /\ UNCHANGED <<adapter, closed, store, batch, hist, base, seen, pos, held,
                 conc, rwc>>

----------------------------------------------------------------------------
\* Concurrent callers: threads that call Put, Get and Delete on the one Core
\* with no lock of their own.  A call is entered, reaches the engine, and
\* returns; calls of different threads overlap.  The adapter methods hold no
\* state between these steps but the engine handle; the engine (badger's
\* transactions, pebble's commit pipeline) takes each call as one step.

Threads == {1, 2}

Idle == [pc |-> "idle", op |-> "none", k |-> <<>>, v |-> NoVal,
         err |-> "nil", out |-> NoVal, at |-> 0, n |-> 0]

\* lin: the writes in the order the engine took them.
NoConc == [thr |-> [t \in Threads |-> Idle], lin |-> <<>>]

\* Thread t enters a call.
Invoke(t, op, k, v) ==
    /\ conc.thr[t].pc = "idle"
    /\ conc.thr[t].n < MaxCalls
    /\ conc' = [conc EXCEPT !.thr[t] =
                   [@ EXCEPT !.pc = "called", !.op = op, !.k = k, !.v = v,
                             !.err = "nil", !.out = NoVal]]
    /\ UNCHANGED <<adapter, closed, store, batch, last, hist, base, iter, seen, pos,
                   res, held, kept, rwc>>

\* What the call of thread t gets from the engine, and the store after it.
Engine(c) ==
    IF c.op = "Put" THEN
        [err |-> PutErr(c.k), out |-> NoVal,
         store |-> IF PutErr(c.k) = "nil" THEN EngineSet(store, c.k, c.v) ELSE store,
         w |-> IF PutErr(c.k) = "nil" THEN <<PutOp(c.k, c.v)>> ELSE <<>>]
    ELSE IF c.op = "Delete" THEN
        [err |-> DeleteErr("live", c.k), out |-> NoVal,
         store |-> IF DeleteErr("live", c.k) = "nil" THEN EngineDelete(store, c.k) ELSE store,
         w |-> IF DeleteErr("live", c.k) = "nil" THEN <<DelOp(c.k)>> ELSE <<>>]
    ELSE
        [err |-> GetRes("live", c.k).err, out |-> GetRes("live", c.k).out,
         store |-> store, w |-> <<>>]

\* The call of thread t reaches the engine.
EngineStep(t) ==
    /\ conc.thr[t].pc = "called"
    /\ LET r == Engine(conc.thr[t]) IN
       /\ store' = r.store
       /\ base' = r.store
       /\ hist' = [k \in AllKeys |-> IF k \in OpKeys(r.w) THEN <<>> ELSE hist[k]]
       /\ conc' = [conc EXCEPT !.lin = @ \o r.w,
                               !.thr[t] = [@ EXCEPT !.pc = "stepped", !.err = r.err,
                                                    !.out = r.out,
                                                    !.at = Len(conc.lin \o r.w)]]
    /\ UNCHANGED <<adapter, closed, batch, last, iter, seen, pos, res, held, kept, rwc>>

\* The call of thread t returns.
Return(t) ==
    /\ conc.thr[t].pc = "stepped"
    /\ conc' = [conc EXCEPT !.thr[t] = [Idle EXCEPT !.n = conc.thr[t].n + 1]]
    /\ UNCHANGED <<adapter, closed, store, batch, last, hist, base, iter, seen, pos,
                   res, held, kept, rwc>>

----------------------------------------------------------------------------
\* helpers.RunWithContext(ctx, fn): a worker goroutine runs fn and sends its
\* result on done, a channel with one slot; the caller selects on ctx.Done()
\* and on done.

\* The (data, err) pairs fn returns.
FnResults == {[data |-> d, err |-> e] : d \in {"v1", NoVal}, e \in {"nil", "ErrFn"}}

NoResult == [data |-> NoVal, err |-> "none"]

\* pc: where the caller is; ctx: the context now; worker: what the
\* goroutine has done; done: the channel's buffer; ret: what the call
\* returned.  History: ctx0 is the context when the call was made, fn is
\* what fn returns, late tells that ctx was cancelled before the send,
\* orphan that the caller had returned before the send.
NoRwc == [pc |-> "none", ctx |-> "live", ctx0 |-> "live", fn |-> NoResult,
          worker |-> "none", done |-> <<>>, late |-> FALSE, orphan |-> FALSE,
          ret |-> NoResult]

\* done := make(chan result, 1); go func() {...}()
RwcCall(ctx, fn) ==
    /\ rwc.pc # "select"
    /\ rwc.worker \in {"none", "sent"}
    /\ rwc' = [pc |-> "select", ctx |-> ctx, ctx0 |-> ctx, fn |-> fn,
               worker |-> "running", done |-> <<>>, late |-> FALSE, orphan |-> FALSE,
               ret |-> NoResult]
    /\ UNCHANGED <<adapter, closed, store, batch, last, hist, base, iter, seen, pos,
                   res, held, kept, conc>>

\* The context is cancelled, or its deadline passes.
RwcCancel ==
    /\ rwc.pc # "none"
    /\ rwc.ctx = "live"
    /\ rwc' = [rwc EXCEPT !.ctx = "cancelled"]
    /\ UNCHANGED <<adapter, closed, store, batch, last, hist, base, iter, seen, pos,
                   res, held, kept, conc>>

\* The worker: data, err := fn().  fn returns when it returns, if ever.
RwcFnReturn ==
    /\ rwc.worker = "running"
    /\ rwc' = [rwc EXCEPT !.worker = "sending"]
    /\ UNCHANGED <<adapter, closed, store, batch, last, hist, base, iter, seen, pos,
                   res, held, kept, conc>>

\* Fault variant of the send: done made without a slot, so the send waits
\* for the caller to receive.
RwcWorkerUnbuffered ==
    /\ rwc.worker = "sending"
    /\ rwc.pc = "select"
    /\ rwc' = [rwc EXCEPT !.worker = "sent", !.pc = "returned", !.ret = rwc.fn,
                          !.late = (rwc.ctx = "cancelled")]
    /\ UNCHANGED <<adapter, closed, store, batch, last, hist, base, iter, seen, pos,
                   res, held, kept, conc>>

\* The worker: done <- result{data, err}.  The send goes through when the
\* slot of done is free, whether the caller still waits or not.
RwcWorker ==
    /\ rwc.worker = "sending"
    /\ Len(rwc.done) < 1
    /\ rwc' = [rwc EXCEPT !.worker = "sent", !.done = <<rwc.fn>>,
                          !.late = (rwc.ctx = "cancelled"),
                          !.orphan = (rwc.pc = "returned")]
    /\ UNCHANGED <<adapter, closed, store, batch, last, hist, base, iter, seen, pos,
                   res, held, kept, conc>>

\* select: of the cases that are ready, Go takes one at random.
\* case <-ctx.Done(): return nil, ctx.Err()
RwcSelectCancel ==
    /\ rwc.pc = "select"
    /\ rwc.ctx = "cancelled"
    /\ rwc' = [rwc EXCEPT !.pc = "returned",
                          !.ret = [data |-> NoVal, err |-> CtxErr(rwc.ctx)]]
    /\ UNCHANGED <<adapter, closed, store, batch, last, hist, base, iter, seen, pos,
                   res, held, kept, conc>>

\* case res := <-done: return res.data, res.err
RwcSelectDone ==
    /\ rwc.pc = "select"
    /\ rwc.done # <<>>
    /\ rwc' = [rwc EXCEPT !.pc = "returned", !.ret = Head(rwc.done), !.done = <<>>]
    /\ UNCHANGED <<adapter, closed, store, batch, last, hist, base, iter, seen, pos,
                   res, held, kept, conc>>


----------------------------------------------------------------------------
\* Specification

Init ==
    /\ adapter \in Adapters
    /\ closed = FALSE
    /\ store = [k \in AllKeys |-> NoVal]
    /\ batch = [st |-> "none", pending |-> <<>>, queued |-> <<>>]
    /\ last = Ret("New", <<>>, "live", "nil", NoVal)
    /\ hist = [k \in AllKeys |-> <<>>]
    /\ base = store
    /\ iter = NoIter
    /\ seen = <<>>
    /\ pos = "None"
    /\ res = NoRes
    /\ held = NoHeld
    /\ kept = NoKept
    /\ conc = NoConc
    /\ rwc = NoRwc

\* The CRUD operations on every key and value, with one batch on one key
\* running beside them.
Next ==
    \/ \E k \in Keys, v \in Values : Put("live", k, v)
    \/ \E c \in Ctxs, k \in Keys : Get(c, k)
    \/ \E c \in Ctxs, k \in Keys : Delete(c, k)
    \/ NewBatch
    \/ \E k \in BatchKeys : BatchPut(k, "v2")
    \/ \E k \in BatchKeys : BatchDelete(k)
    \/ \E c \in Ctxs : Commit(c)

Spec == Init /\ [][Next]_vars

\* The batch operations on every key, with direct writes of one key and
\* reads of every key running beside them.
NextBatch ==
    \/ \E k \in BatchKeys, v \in Values : Put("live", k, v)
    \/ \E k \in Keys : Get("live", k)
    \/ NewBatch
    \/ \E k \in Keys, v \in Values : BatchPut(k, v)
    \/ \E k \in BatchKeys : BatchDelete(k)
    \/ \E c \in Ctxs : Commit(c)

SpecBatch == Init /\ [][NextBatch]_vars

\* A store with any contents (badger holds no empty key), scanned.
InitScan ==
    /\ adapter \in Adapters
    /\ closed = FALSE
    /\ store \in [AllKeys -> {"v1", NoVal}]
    /\ adapter = "badger" => store[<<>>] = NoVal
    /\ batch = [st |-> "none", pending |-> <<>>, queued |-> <<>>]
    /\ last = Ret("New", <<>>, "live", "nil", NoVal)
    /\ hist = [k \in AllKeys |-> <<>>]
    /\ base = store
    /\ iter = NoIter
    /\ seen = <<>>
    /\ pos = "None"
    /\ res = NoRes
    /\ held = NoHeld
    /\ kept = NoKept
    /\ conc = NoConc
    /\ rwc = NoRwc

NextScan ==
    \/ \E p \in Prefixes : Scan(p)
    \/ IterNext
    \/ IterKey
    \/ \E f \in BOOLEAN : IterValue(f)
    \/ IterError
    \/ Release

SpecScan == InitScan /\ [][NextScan]_vars

\* Scan-then-Release cycles: an iterator is asked for only when the one
\* before it has been released.
ScanNoneHeld(prefix) == iter.st # "live" /\ Scan(prefix)

NextCycle ==
    \/ \E p \in Prefixes : ScanNoneHeld(p)
    \/ IterNext
    \/ Release

SpecCycle == InitScan /\ [][NextCycle]_vars

\* The CRUD operations and Close.
NextClose ==
    \/ \E k \in Keys : Put("live", k, "v1")
    \/ \E c \in Ctxs, k \in Keys : Get(c, k)
    \/ \E c \in Ctxs, k \in Keys : Delete(c, k)
    \/ \E f \in BOOLEAN : Close(f)

SpecClose == Init /\ [][NextClose]_vars

\* Every operation that takes a context, with a live and with a cancelled one.
NextCtx ==
    \/ \E c \in Ctxs, k \in BatchKeys, v \in Values : Put(c, k, v)
    \/ \E c \in Ctxs, k \in Keys : Get(c, k)
    \/ \E c \in Ctxs, k \in BatchKeys : Delete(c, k)
    \/ NewBatch
    \/ \E k \in Keys : BatchPut(k, "v1")
    \/ \E c \in Ctxs : Commit(c)

SpecCtx == Init /\ [][NextCtx]_vars

\* Threads calling Put, Get and Delete of one key on the one Core at the
\* same time.
NextConc ==
    \/ \E t \in Threads, k \in BatchKeys, v \in Values : Invoke(t, "Put", k, v)
    \/ \E t \in Threads, k \in BatchKeys : Invoke(t, "Get", k, NoVal)
    \/ \E t \in Threads, k \in BatchKeys : Invoke(t, "Delete", k, NoVal)
    \/ \E t \in Threads : EngineStep(t)
    \/ \E t \in Threads : Return(t)

SpecConc == Init /\ [][NextConc]_vars

\* RunWithContext calls, one after the other, with the context cancelled
\* at any moment.
NextRwc ==
    \/ \E c \in Ctxs, f \in FnResults : RwcCall(c, f)
    \/ RwcCancel
    \/ RwcFnReturn
    \/ RwcWorker
    \/ RwcSelectCancel
    \/ RwcSelectDone

SpecRwc == Init /\ [][NextRwc]_vars

\* The Go scheduler runs every goroutine that can run: the worker's send
\* and the caller's select are taken when they stay ready.  Nothing makes
\* fn return or the context end.
SpecRwcLive ==
    /\ SpecRwc
    /\ WF_vars(RwcWorker)
    /\ WF_vars(RwcSelectCancel \/ RwcSelectDone)

\* Put, Get and Delete of the empty key and of one other key.
EdgeKeys == {<<>>, <<1>>}

NextEdge ==
    \/ \E k \in EdgeKeys, v \in Values : Put("live", k, v)
    \/ \E k \in EdgeKeys : Get("live", k)
    \/ \E k \in EdgeKeys : Delete("live", k)

SpecEdge == Init /\ [][NextEdge]_vars

\* The CRUD operations, with the engine reusing its memory beside them.
NextAlias ==
    \/ \E k \in Keys, v \in Values : Put("live", k, v)
    \/ \E k \in Keys : Get("live", k)
    \/ \E k \in Keys : Delete("live", k)
    \/ Recycle

SpecAlias == Init /\ [][NextAlias]_vars

\* One prefix scanned, the keys and values read being kept by the caller
\* while the iterator moves on and the engine reuses its buffers.
NextKeep ==
    \/ Scan(<<1>>)
    \/ IterNext
    \/ IterKey
    \/ IterValue(FALSE)
    \/ Release
    \/ ReuseBuffer

SpecKeep == InitScan /\ [][NextKeep]_vars

\* Writes to the Core, direct and batched, before and after a Scan and
\* between the Next() calls of its iterator.
SnapKeys == {<<1>>, <<1, 0>>}

NextSnap ==
    \/ \E k \in SnapKeys : Put("live", k, "v1")
    \/ Delete("live", <<1, 0>>)
    \/ NewBatch
    \/ \E k \in BatchKeys : BatchPut(k, "v2")
    \/ Commit("live")
    \/ ScanNoneHeld(<<1>>)
    \/ IterNext
    \/ IterKey
    \/ IterValue(FALSE)
    \/ Release

SpecSnap == Init /\ [][NextSnap]_vars

\* A Core written to and closed; Batch() and Scan() are called on the
\* closed Core, and the batch they return is used.
ClosedBatch == closed /\ NewBatch
ClosedScan(prefix) == closed /\ Scan(prefix)

NextClosed ==
    \/ \E k \in Keys, v \in Values : Put("live", k, v)
    \/ Close(FALSE)
    \/ ClosedBatch
    \/ \E k \in Keys : BatchPut(k, "v1")
    \/ \E k \in BatchKeys : BatchDelete(k)
    \/ Commit("live")
    \/ \E p \in {<<1>>, <<255>>} : ClosedScan(p)

SpecClosed == Init /\ [][NextClosed]_vars

----------------------------------------------------------------------------
\* Properties

LastOf(h) == h[Len(h)]
BatchOpNames == {"BatchPut", "BatchDelete", "Commit"}

\* A Get with a live context on the open Core of a key whose last direct
\* write is known.
GetOfKnown == /\ last.op = "Get"
              /\ last.ctx = "live"
              /\ ~closed
              /\ hist[last.k] # <<>>

\* C1: once Put(k, v) returned nil, and no later Put, Delete or batch commit
\* touched k, Get(k) with a live context returns (v, nil), whatever was done
\* to other keys in between.
C1_PutThenGet ==
    (GetOfKnown /\ LastOf(hist[last.k]) \in Values)
        => (last.err = "nil" /\ last.out = LastOf(hist[last.k]))

C1_Witness ==
    /\ GetOfKnown
    /\ LastOf(hist[last.k]) \in Values
    /\ last.out = LastOf(hist[last.k])
    /\ \E k2 \in Keys \ {last.k} : hist[k2] # <<>>
    /\ batch.st = "done"

\* C2: after Delete(k) returned nil, and until k is written again, Get(k)
\* (live context) returns a NotFound-class error and no value.
C2_DeleteThenGet ==
    (GetOfKnown /\ LastOf(hist[last.k]) = Del)
        => (last.err \in NotFoundClass /\ last.out = NoVal)

C2_Witness ==
    /\ GetOfKnown
    /\ hist[last.k] \in {<<v, Del>> : v \in Values}
    /\ last.err \in NotFoundClass

\* C3: last write wins: after Put(k, v1) then Put(k, v2), both nil, Get(k)
\* returns v2 and not the earlier v1.
C3_LastWriteWins ==
    (/\ GetOfKnown
     /\ Len(hist[last.k]) = 2
     /\ hist[last.k][1] \in Values
     /\ hist[last.k][2] \in Values
     /\ hist[last.k][1] # hist[last.k][2])
        => (/\ last.err = "nil"
            /\ last.out = hist[last.k][2]
            /\ last.out # hist[last.k][1])

C3_Witness ==
    /\ GetOfKnown
    /\ hist[last.k] = <<"v1", "v2">>
    /\ last.out = "v2"

\* What Get returns for every key, with a live context.
Reads == [k \in AllKeys |-> GetRes("live", k)]

\* C4: Batch.Put and Batch.Delete on an open batch only queue the operation:
\* every Get returns after the call what it returned before it.
C4_BatchAddLeavesStore ==
    [][(batch.st = "open" /\ last'.op \in {"BatchPut", "BatchDelete"})
          => Reads' = Reads]_vars

\* The value the queued operations leave in key k: the value of the last
\* queued Put of k, NoVal when k is not put or is deleted after being put.
RECURSIVE Batched(_, _)
Batched(ops, k) ==
    IF ops = <<>> THEN NoVal
    ELSE LET o == ops[Len(ops)] IN
         IF o.k = k THEN o.v ELSE Batched(SubSeq(ops, 1, Len(ops) - 1), k)

\* C5: when Commit returns nil, Get of each key put in the batch returns its
\* batched value.
C5_CommitApplies ==
    (last.op = "Commit" /\ last.err = "nil")
        => \A k \in AllKeys :
              Batched(batch.queued, k) # NoVal
                  => GetRes("live", k) = [err |-> "nil", out |-> Batched(batch.queued, k)]

\* C6: all or nothing: while the batch is open, and when its Commit has
\* returned nil, the store holds none of the queued operations or all of them.
C6_AllOrNothing ==
    (batch.st = "open" \/ (last.op = "Commit" /\ last.err = "nil"))
        => (store = base \/ store = ApplyOps(base, batch.queued))

\* C7: a Put, Delete or Commit on a committed batch never succeeds silently:
\* it fails (an error or a panic) and leaves the store unchanged.
C7_ReuseRejected ==
    [][(batch.st = "done" /\ last'.op \in BatchOpNames)
          => (last'.err # "nil" /\ store' = store)]_vars

C7_Witness ==
    /\ batch.st = "done"
    /\ last.op \in {"BatchPut", "BatchDelete"}
    /\ last.err # "nil"
    /\ \E k \in Keys : store[k] # NoVal

\* C8: on every adapter, Put, Delete and Commit on a committed batch return
\* a non-nil error value; they do not panic.
C8_ReuseReturnsError ==
    [][(batch.st = "done" /\ last'.op \in BatchOpNames)
          => last'.err \notin {"nil", "panic"}]_vars

\* C9: on pebble, Put and Commit on a committed batch panic.
C9_PebbleReusePanics ==
    [][(adapter = "pebble" /\ batch.st = "done" /\ last'.op \in {"BatchPut", "Commit"})
          => last'.err = "panic"]_vars

C9_Witness ==
    /\ adapter = "pebble"
    /\ batch.st = "done"
    /\ last.op = "Commit"
    /\ last.err = "panic"

SeenKeys == {seen[i] : i \in 1..Len(seen)}
WithPrefix(p) == {k \in Present(store) : HasPrefix(k, p)}

\* C10: for any store contents and any non-empty prefix p, the keys read by
\* Key() after the true-returning Next() calls of Scan(p) are exactly the
\* stored keys that start with p, each once: every key read starts with p and
\* is stored, and when Next() first returns false every such key has been
\* read, in as many true-returning calls as there are such keys.
C10_ScanYieldsPrefixKeys ==
    (iter.st = "live" /\ iter.prefix # <<>>)
        => /\ SeenKeys \subseteq WithPrefix(iter.prefix)
           /\ (last.op = "Next" /\ last.err = "nil" /\ last.out = "false")
                 => /\ SeenKeys = WithPrefix(iter.prefix)
                    /\ Len(seen) = Cardinality(WithPrefix(iter.prefix))

\* C11: the keys read after the true-returning Next() calls of one iterator
\* are in strictly increasing byte-lexicographic order: none is repeated and
\* none comes before an earlier one.
C11_StrictlyIncreasing ==
    \A i, j \in 1..Len(seen) : i < j => Less(seen[i], seen[j])

C11_Witness ==
    /\ Len(seen) >= 3
    /\ last.op = "Next"
    /\ last.out = "true"

\* C12: Scan([]byte{0xFF}) does not panic, its upper bound is not wrapped
\* around to below the prefix, and every key it yields starts with 0xFF.
C12_ScanFFKeepsBound ==
    /\ (last.op = "Scan" /\ last.k = <<255>>) => last.err = "nil"
    /\ (iter.st # "none" /\ iter.prefix = <<255>>)
          => /\ SeenKeys \subseteq WithPrefix(<<255>>)
             /\ adapter = "pebble" => Less(iter.prefix, iter.upper)

\* C13: Scan with an empty prefix does not panic and returns a usable
\* iterator over that prefix.
C13_EmptyPrefixScans ==
    (last.op = "Scan" /\ last.k = <<>>)
        => (last.err = "nil" /\ iter.st = "live" /\ iter.prefix = <<>>)

\* C14: while the iterator is not Positioned (before the first Next(), after
\* a Next() that returned false), Key() and Value() return nil, not the key
\* or value of an entry visited before.
C14_NilUnlessPositioned ==
    (iter.st = "live" /\ pos # "Positioned")
        => /\ last.op = "Key" => last.k = NoKey
           /\ last.op = "Value" => last.out = NoVal

C14_Witness ==
    /\ iter.st = "live"
    /\ pos = "Exhausted"
    /\ seen # <<>>
    /\ last.op = "Key"
    /\ last.k = NoKey

\* C15: Exhausted is terminal: once Next() has returned false, every later
\* Next() on the iterator returns false and leaves it Exhausted.
C15_ExhaustedIsTerminal ==
    [][(pos = "Exhausted" /\ last'.op = "Next")
          => (last'.err = "nil" /\ last'.out = "false" /\ pos' = "Exhausted")]_vars

\* C16: on an iterator that met no Value() fault (new, positioned or
\* exhausted), Error() returns nil and does not panic.
C16_ErrorNilWithoutFault ==
    (last.op = "Error" /\ iter.errs = <<>>)
        => (last.err = "nil" /\ last.out = "nil")

\* C17: Release() in any iterator state (NotStarted, Positioned, Exhausted)
\* does not panic and leaves the store as it was.
C17_ReleaseAnyState ==
    [][last'.op = "Release"
          => (last'.err = "nil" /\ iter'.st = "released" /\ store' = store)]_vars

C17_Witness ==
    /\ last.op = "Release"
    /\ last.err = "nil"
    /\ adapter = "badger"
    /\ pos = "Exhausted"
    /\ Present(store) # {}

\* C18: when every iterator asked for has been released, no resource a Scan
\* opened is still open: as many cursors and read transactions are open
\* after any number of Scan-then-Release cycles as before the first Scan.
C18_ReleaseFreesAll ==
    iter.st # "live" => res = NoRes

\* C19: on a closed Core, Put, Get, Delete and Close each return a non-nil
\* error value; none returns nil and none panics.
C19_ClosedReturnsError ==
    [][(closed /\ last'.op \in {"Put", "Get", "Delete", "Close"})
          => last'.err \notin {"nil", "panic"}]_vars

\* C20: the slice Get returned is the caller's own memory, not the
\* engine's, and it reads what it read when Get returned, whatever is done
\* afterwards.
C20_GetReturnsCopy ==
    /\ held.owned
    /\ held.val = held.was

\* C21: the slices Key() and Value() returned are the caller's own memory
\* and read what they read when the call returned, whatever Next() and
\* Release() calls follow on the iterator.
C21_KeyValueAreCopies ==
    /\ kept.owned
    /\ kept.val = kept.was

CtxOps == {"Put", "Get", "Delete", "Commit"}

\* C22: Put, Get, Delete and Commit called with a cancelled context return
\* the context's error and do no engine work: the store and the batch are
\* after the call what they were before it.
C22_CancelledDoesNothing ==
    [][(last'.ctx = "cancelled" /\ last'.op \in CtxOps)
          => (last'.err = CtxErr("cancelled") /\ store' = store /\ batch' = batch)]_vars

\* C23: Get (live context, open Core) of a key that is absent fails with a
\* NotFound error that is the same on every adapter and is not the
\* cancellation error.
C23_NotFoundUniform ==
    (last.op = "Get" /\ last.ctx = "live" /\ ~closed /\ store[last.k] = NoVal)
        => /\ last.err \in NotFoundClass
           /\ last.err # CtxErr("cancelled")
           /\ BadgerGet("live", last.k).err = last.err
           /\ PebbleGet("live", last.k).err = last.err

\* C24: Delete (live context, open Core) of a key that is not
\* present returns nil and leaves the store contents unchanged.
C24_DeleteAbsent ==
    [][(last'.op = "Delete" /\ last'.ctx = "live" /\ ~closed /\ store[last'.k] = NoVal)
          => (last'.err = "nil" /\ store' = store)]_vars

\* C25: Close() on an open Core returns nil when the engine's close reports
\* no failure, and else the join of every failure the cleanup met.
C25_CloseJoinsFailures ==
    [][(~closed /\ last'.op = "Close")
          => last'.err = (IF last'.out = "nil" THEN "nil" ELSE Join(<<last'.out>>))]_vars

C25_Witness ==
    /\ closed
    /\ last.op = "Close"
    /\ last.out = "ErrEngineClose"
    /\ last.err = Join(<<"ErrEngineClose">>)

\* What a Get of key k returns in the serial order of writes ops.
SerialGet(ops, k) ==
    IF Batched(ops, k) = NoVal THEN [err |-> "NotFound", out |-> NoVal]
    ELSE [err |-> "nil", out |-> Batched(ops, k)]

Classified(r) ==
    [err |-> IF r.err \in NotFoundClass THEN "NotFound" ELSE r.err, out |-> r.out]

Outcome(e) == IF e = "nil" THEN "ok" ELSE IF e = "panic" THEN "panic" ELSE "error"

\* The first key a fresh iterator yields.
FirstKey(r, nxt) == IF r.err # "nil" THEN NoKey ELSE KeyRes(nxt.it)

\* C28: in every state a badger-backed and a pebble-backed Core both reach
\* by the same calls, the next call with a live context has the same
\* outcome on both: Put, Get and Delete of every key, Scan of every
\* prefix, and the first key the scan yields.
C28_AdaptersAgree ==
    /\ \A k \in AllKeys :
          /\ Outcome(BadgerPutErr(k)) = Outcome(PebblePutErr(k))
          /\ Outcome(BadgerGet("live", k).err) = Outcome(PebbleGet("live", k).err)
          /\ BadgerGet("live", k).out = PebbleGet("live", k).out
          /\ Outcome(BadgerDeleteErr("live", k)) = Outcome(PebbleDeleteErr("live", k))
    /\ \A p \in Prefixes :
          LET b == BadgerScan(p)
              q == PebbleScan(p) IN
          /\ Outcome(b.err) = Outcome(q.err)
          /\ FirstKey(b, BadgerNext(b.it)) = FirstKey(q, PebbleNext(q.it))

\* C29: after pebble's Scan of a non-empty prefix, a stored key lies in
\* [prefix, upper) if and only if it starts with the prefix.
C29_BoundCoversPrefix ==
    (adapter = "pebble" /\ iter.st # "none")
        => \A k \in Present(iter.snap) :
              (LessEq(iter.prefix, k) /\ Less(k, iter.upper)) <=> HasPrefix(k, iter.prefix)

Cancelled == [data |-> NoVal, err |-> CtxErr("cancelled")]

\* C27: when RunWithContext has returned: if the context was cancelled
\* before fn's result was delivered (sent on done), it returned
\* (nil, ctx.Err()); a result delivered after the return is not what it
\* returned; and if it returned no cancellation error, it returned fn's pair.
C27_CancelBeatsLateResult ==
    rwc.pc = "returned"
        => /\ (rwc.late \/ rwc.worker \in {"running", "sending"}) => rwc.ret = Cancelled
           /\ rwc.ret.err = CtxErr("cancelled") => rwc.ret = Cancelled
           /\ rwc.ret.err # CtxErr("cancelled") => rwc.ret = rwc.fn

\* C30: RunWithContext called with a context that is already cancelled
\* returns the cancellation error, never fn's result.
C30_CancelledAtCallFailsFast ==
    (rwc.pc = "returned" /\ rwc.ctx0 = "cancelled") => rwc.ret = Cancelled

\* C31: the worker's send on done is never blocked: once fn has returned
\* the slot of done is free and the send completes, also when the caller
\* has already returned on cancellation; and a RunWithContext call whose
\* fn has returned or whose context is cancelled returns.
C31_NoGoroutineBlocked ==
    /\ [](rwc.worker = "sending" => Len(rwc.done) < 1)
    /\ (rwc.worker = "sending") ~> (rwc.worker = "sent")
    /\ (rwc.pc = "select" /\ (rwc.worker # "running" \/ rwc.ctx = "cancelled"))
           ~> (rwc.pc = "returned")

C31_Witness ==
    /\ rwc.pc = "returned"
    /\ rwc.ret = Cancelled
    /\ rwc.worker = "sent"
    /\ rwc.orphan
    /\ rwc.done = <<rwc.fn>>


\* C32: on badger, Commit with a cancelled context on an open batch returns
\* the context's error and leaves the store and the batch as they were; and
\* a Commit with a live context that follows it returns nil and applies all
\* the queued operations: every key they touch holds what they leave in it.
C32_CancelledCommitRetries ==
    [][/\ (/\ adapter = "badger" /\ batch.st = "open"
           /\ last'.op = "Commit" /\ last'.ctx = "cancelled")
              => (last'.err = CtxErr("cancelled") /\ store' = store /\ batch' = batch)
       /\ (/\ adapter = "badger" /\ batch.st = "open"
           /\ last.op = "Commit" /\ last.ctx = "cancelled"
           /\ last'.op = "Commit" /\ last'.ctx = "live")
              => /\ last'.err = "nil"
                 /\ \A k \in OpKeys(batch.queued) :
                       store'[k] = Batched(batch.queued, k)]_vars

\* How many of the operations ops are on key k.
Touches(ops, k) == Cardinality({i \in 1..Len(ops) : ops[i].k = k})

\* C33: when Commit has returned nil, every key the batch touched more than
\* once holds what the last queued operation on it leaves: the put value, or
\* nothing after a Delete.
C33_LastQueuedWins ==
    (last.op = "Commit" /\ last.err = "nil")
        => \A k \in AllKeys :
              Touches(batch.queued, k) >= 2 => store[k] = Batched(batch.queued, k)

\* C34: a Key() or Value() called on a released iterator, whatever state it
\* was released in, has not gone to the released engine cursor and has
\* returned nil.
C34_ReleasedReturnsNil ==
    (iter.st = "released" /\ last.op \in {"Key", "Value"})
        => /\ ~TouchesCursor(iter)
           /\ last.op = "Key" => last.k = NoKey
           /\ last.op = "Value" => last.out = NoVal

\* The keys of the iterator's range: badger checks the prefix, pebble the
\* bounds Scan gave it.
InRange(it, k) ==
    IF adapter = "badger" THEN HasPrefix(k, it.prefix)
    ELSE LessEq(it.prefix, k) /\ Less(k, it.upper)

\* The entries of the iterator's range in the store as it was at Scan.
AtScan(it) == {k \in Present(it.snap) : InRange(it, k)}

\* C35: a live iterator yields the entries its range had in the store when
\* Scan was called, whatever was written since: the keys read so far are the
\* first of them in order, none added and none left out, an exhausted
\* iterator has yielded them all, and Key() and Value() return the key and
\* the value the entry had at Scan.
C35_SnapshotAtScan ==
    iter.st = "live"
        => /\ \A i \in 1..Len(seen) :
                 /\ seen[i] \in AtScan(iter)
                 /\ Cardinality({k \in AtScan(iter) : Less(k, seen[i])}) = i - 1
           /\ pos = "Exhausted" => Len(seen) = Cardinality(AtScan(iter))
           /\ (pos = "Positioned" /\ last.op = "Key") => last.k = seen[Len(seen)]
           /\ (pos = "Positioned" /\ last.op = "Value")
                 => last.out = iter.snap[seen[Len(seen)]]

\* A key put, a key deleted and a key overwritten after Scan, and the
\* iterator still reading the old entries.
C35_Witness ==
    /\ iter.st = "live"
    /\ pos = "Positioned"
    /\ Len(seen) = 2
    /\ last.op = "Value"
    /\ last.out = "v1"
    /\ store[seen[1]] = "v2"
    /\ store[seen[2]] = NoVal

\* C36: a Value() that fails to materialize the value appends the fault to
\* the recorded ones and returns an empty result; no call on the iterator
\* removes a recorded fault; and Error(), with a fault recorded, returns the
\* most recent one, as often as it is called.
C36_ErrorKeepsLastFault ==
    /\ []((last.op = "Error" /\ iter.errs # <<>>)
             => (last.err = "nil" /\ last.out = iter.errs[Len(iter.errs)]))
    /\ [][/\ last'.op # "Scan"
             => /\ Len(iter'.errs) >= Len(iter.errs)
                /\ SubSeq(iter'.errs, 1, Len(iter.errs)) = iter.errs
          /\ (last'.op = "Value" /\ iter'.errs # iter.errs)
             => /\ last'.out \in {NoVal, Empty}
                /\ Len(iter'.errs) = Len(iter.errs) + 1]_vars

C36_Witness ==
    /\ last.op = "Error"
    /\ Len(iter.errs) = 2
    /\ iter.errs[1] # iter.errs[2]
    /\ last.out = iter.errs[2]

\* C37: on a closed Core, Batch() and Scan(prefix) do not panic, and every
\* call on the batch they return (Put, Delete, Commit) returns an error
\* value: none returns nil and none panics.
C37_ClosedBatchScanFail ==
    [][/\ (closed /\ last'.op \in {"Batch", "Scan"}) => last'.err # "panic"
       /\ (closed /\ last'.op \in BatchOpNames) => last'.err \notin {"nil", "panic"}]_vars

====
